---- MODULE Spec2Model ----
(***************************************************************************)
(* Model of src/create-embeddings-store.js: main() connects to the store,  *)
(* loads the test-case batch, and for each record requests an embedding,   *)
(* inserts the enriched document, accumulates run totals, and finally      *)
(* prints a summary and closes the connection.  One action per stretch of  *)
(* code between two awaits.  Costs are integers (micro-units).             *)
(***************************************************************************)
EXTENDS Integers, Sequences, FiniteSets, TLC

\* ---------------------------------------------------------------- bounds
MaxRecords == 3
MaxCost == 1
MaxTokens == 1

\* ------------------------------------------------------ program constants
StatusOK == 200
PauseMs == 100

VARIABLES
    pc,          \* position of main()
    conn,        \* the MongoClient: "new", "open", "closed"
    loaded,      \* TRUE once testcases has been parsed (line 34)
    testcases,   \* the parsed batch
    i,           \* index of the record the for-of loop is at (0 before the first)
    totalCost,   \* line 44
    totalTokens, \* line 45
    doc,         \* the document built at lines 101-111 and handed to insertOne
    store,       \* the collection: documents inserted by this run, in order
    hist,        \* per record: what its embedding call and its write produced
    startLog,    \* ids of the records whose loop body began (line 48)
    embedLog,    \* ids of the records for which axios.post was called
    insertLog,   \* ids of the records for which insertOne was called
    average,     \* value of totalCost / testcases.length at line 152
    outerErr,    \* what the outer catch (line 154) caught
    pending,     \* error still propagating after the outer catch block
    mainResult,  \* settlement of the promise returned by main()
    now,         \* lower bound on elapsed time, in ms
    lastReq,     \* value of now when the last embedding request was sent, -1 if none
    unpaced      \* ids of records whose request followed the previous one by < PauseMs

vars == <<pc, conn, loaded, testcases, i, totalCost, totalTokens, doc, store,
          hist, startLog, embedLog, insertLog, average, outerErr, pending,
          mainResult, now, lastReq, unpaced>>

\* ------------------------------------------------------------- data model
DescriptionValues == {"text", "undefined"}

\* the batches JSON.parse can return: arrays of records, id unique in the batch
Batches ==
    UNION { { [k \in 1..n |-> [id |-> k, description |-> f[k]]] :
                f \in [1..n -> DescriptionValues] } : n \in 0..MaxRecords }

\* an optional response field is the empty set when absent
CostFields == {{}} \cup { {c} : c \in 0..MaxCost }
TokenFields == {{}} \cup { {t} : t \in 1..MaxTokens }

\* what awaiting axios.post can produce
Responses ==
    { [kind |-> "transport", httpStatus |-> 0, bodyStatus |-> 0,
       hasData |-> FALSE, cost |-> {}, tokens |-> {}],
      [kind |-> "http", httpStatus |-> 500, bodyStatus |-> 0,
       hasData |-> FALSE, cost |-> {}, tokens |-> {}],
      [kind |-> "response", httpStatus |-> 200, bodyStatus |-> 429,
       hasData |-> FALSE, cost |-> {}, tokens |-> {}],
      [kind |-> "response", httpStatus |-> 200, bodyStatus |-> 429,
       hasData |-> TRUE, cost |-> {MaxCost}, tokens |-> {MaxTokens}],
      [kind |-> "response", httpStatus |-> 200, bodyStatus |-> StatusOK,
       hasData |-> FALSE, cost |-> {}, tokens |-> {}] }
    \cup
    { [kind |-> "response", httpStatus |-> 200, bodyStatus |-> StatusOK,
       hasData |-> TRUE, cost |-> c, tokens |-> t] :
         c \in CostFields, t \in TokenFields }

NoDoc == [tc |-> 0, cost |-> 0, tokens |-> 0]
NoResponse == [kind |-> "none", httpStatus |-> 0, bodyStatus |-> 0,
               hasData |-> FALSE, cost |-> {}, tokens |-> {}]
Fresh == [resp |-> NoResponse, write |-> "none"]
Unset == [kind |-> "unset", num |-> 0, den |-> 0]

\* ------------------------------------------------------------ pure helpers
\* `field || 0`
OrZero(field) == IF field = {} THEN 0 ELSE CHOOSE x \in field : TRUE

\* variants of Outcome: the body status is not checked / a non-2xx reply
\* is not rejected by the HTTP client
Outcome_NoStatusCheck(resp) ==
    IF resp.kind = "transport" THEN "transport"
    ELSE IF resp.kind = "http" THEN "http"
    ELSE IF ~resp.hasData THEN "malformed"
    ELSE "ok"

Outcome_NoHttpCheck(resp) ==
    IF resp.kind = "transport" THEN "transport"
    ELSE IF resp.kind = "http" THEN "ok"
    ELSE IF resp.bodyStatus # StatusOK THEN "rejected"
    ELSE IF ~resp.hasData THEN "malformed"
    ELSE "ok"

\* how the try block fares on what axios.post produced: the call rejects
\* (no response / non-2xx), the body status check throws, data[0] is
\* missing, or the embedding is accepted
Outcome(resp) ==
    IF resp.kind = "transport" THEN "transport"
    ELSE IF resp.kind = "http" THEN "http"
    ELSE IF resp.bodyStatus # StatusOK THEN "rejected"
    ELSE IF ~resp.hasData THEN "malformed"
    ELSE "ok"

\* variant of Accumulate: `total = x`
Accumulate_Overwrite(total, x) == x

\* `total += x`
Accumulate(total, x) == total + x

\* variant of HasNext: the last record is left out
HasNext_OffByOne(idx, tcs) == idx + 1 < Len(tcs)

\* the for-of loop has another record to visit
HasNext(idx, tcs) == idx < Len(tcs)

\* JavaScript number division a / b
Divide(a, b) ==
    IF b = 0
    THEN IF a = 0 THEN [kind |-> "NaN", num |-> a, den |-> b]
                  ELSE [kind |-> "Infinity", num |-> a, den |-> b]
    ELSE [kind |-> "number", num |-> a, den |-> b]

\* variant of AfterInnerCatch: the per-record catch rethrows
AfterInnerCatch_Rethrow == "catch"

\* where control goes after the per-record catch block (`continue`)
AfterInnerCatch == "loop"

\* variant of AfterOuterCatch: the outer catch rethrows
AfterOuterCatch_Rethrow(err) == err

\* what is still propagating when the outer catch block has run (it only logs)
AfterOuterCatch(err) == "none"

\* ------------------------------------------------------------------- Init
Init ==
    /\ pc = "connect"
    /\ conn = "new"
    /\ loaded = FALSE
    /\ testcases = <<>>
    /\ i = 0
    /\ totalCost = 0
    /\ totalTokens = 0
    /\ doc = NoDoc
    /\ store = <<>>
    /\ hist = <<>>
    /\ startLog = <<>>
    /\ embedLog = <<>>
    /\ insertLog = <<>>
    /\ average = Unset
    /\ outerErr = "none"
    /\ pending = "none"
    /\ mainResult = "pending"
    /\ now = 0
    /\ lastReq = -1
    /\ unpaced = {}

\* ---------------------------------------------------------------- actions
\* line 29: client.connect() resolves
ConnectOk ==
    /\ pc = "connect"
    /\ conn' = "open"
    /\ pc' = "load"
    /\ UNCHANGED <<loaded, testcases, i, totalCost, totalTokens, doc, store,
                   hist, startLog, embedLog, insertLog, average, outerErr,
                   pending, mainResult, now, lastReq, unpaced>>

\* line 29: client.connect() rejects; control goes to the outer catch
ConnectFail ==
    /\ pc = "connect"
    /\ outerErr' = "connect"
    /\ pc' = "catch"
    /\ UNCHANGED <<conn, loaded, testcases, i, totalCost, totalTokens, doc,
                   store, hist, startLog, embedLog, insertLog, average,
                   pending, mainResult, now, lastReq, unpaced>>

\* lines 30-45: the batch is read and parsed, the totals start at 0
LoadOk ==
    /\ pc = "load"
    /\ \E batch \in Batches :
         /\ testcases' = batch
         /\ hist' = [k \in 1..Len(batch) |-> Fresh]
    /\ loaded' = TRUE
    /\ totalCost' = 0
    /\ totalTokens' = 0
    /\ pc' = "loop"
    /\ UNCHANGED <<conn, i, doc, store, startLog, embedLog, insertLog,
                   average, outerErr, pending, mainResult, now, lastReq,
                   unpaced>>

\* line 34: readFileSync or JSON.parse throws
LoadFail ==
    /\ pc = "load"
    /\ outerErr' = "load"
    /\ pc' = "catch"
    /\ UNCHANGED <<conn, loaded, testcases, i, totalCost, totalTokens, doc,
                   store, hist, startLog, embedLog, insertLog, average,
                   pending, mainResult, now, lastReq, unpaced>>

\* lines 47-74: the loop takes the next record, logs it (line 48, outside
\* the per-record try) and sends the embedding request
BeginRecord ==
    /\ pc = "loop"
    /\ HasNext(i, testcases)
    /\ i' = i + 1
    /\ startLog' = Append(startLog, testcases[i + 1].id)
    /\ IF testcases[i + 1].description = "undefined"
       THEN \* TypeError at line 48: not inside the try of line 50
            /\ outerErr' = "loop"
            /\ pc' = "catch"
            /\ UNCHANGED <<embedLog, lastReq, unpaced>>
       ELSE /\ embedLog' = Append(embedLog, testcases[i + 1].id)
            /\ lastReq' = now
            /\ unpaced' = IF lastReq >= 0 /\ now - lastReq < PauseMs
                          THEN unpaced \cup {testcases[i + 1].id}
                          ELSE unpaced
            /\ pc' = "embed"
            /\ UNCHANGED outerErr
    /\ UNCHANGED <<conn, loaded, testcases, totalCost, totalTokens, doc,
                   store, hist, insertLog, average, pending, mainResult, now>>

\* lines 62-113 and 126-145: the request settles; either the try block
\* throws and the record is skipped, or the totals are updated, the
\* document is built and insertOne is called
EmbedReturn ==
    /\ pc = "embed"
    /\ \E resp \in Responses :
         LET out == Outcome(resp)
             cost == OrZero(resp.cost)
             tokens == OrZero(resp.tokens)
         IN IF out = "ok"
            THEN /\ totalCost' = Accumulate(totalCost, cost)
                 /\ totalTokens' = Accumulate(totalTokens, tokens)
                 /\ doc' = [tc |-> testcases[i].id, cost |-> cost,
                            tokens |-> tokens]
                 /\ hist' = [hist EXCEPT ![i].resp = resp]
                 /\ insertLog' = Append(insertLog, testcases[i].id)
                 /\ pc' = "insert"
            ELSE /\ hist' = [hist EXCEPT ![i].resp = resp]
                 /\ pc' = AfterInnerCatch
                 /\ UNCHANGED <<totalCost, totalTokens, doc, insertLog>>
    /\ UNCHANGED <<conn, loaded, testcases, i, store, startLog, embedLog,
                   average, outerErr, pending, mainResult, now, lastReq,
                   unpaced>>

\* lines 114-123: insertOne resolves, the document is in the collection
InsertOk ==
    /\ pc = "insert"
    /\ store' = Append(store, doc)
    /\ hist' = [hist EXCEPT ![i].write = "ok"]
    /\ doc' = NoDoc
    /\ pc' = "pause"
    /\ UNCHANGED <<conn, loaded, testcases, i, totalCost, totalTokens,
                   startLog, embedLog, insertLog, average, outerErr, pending,
                   mainResult, now, lastReq, unpaced>>

\* lines 114, 126-145: insertOne rejects, the per-record catch skips on
InsertFail ==
    /\ pc = "insert"
    /\ hist' = [hist EXCEPT ![i].write = "fail"]
    /\ doc' = NoDoc
    /\ pc' = AfterInnerCatch
    /\ UNCHANGED <<conn, loaded, testcases, i, totalCost, totalTokens, store,
                   startLog, embedLog, insertLog, average, outerErr, pending,
                   mainResult, now, lastReq, unpaced>>

\* line 124: the 100ms timer fires
Pause ==
    /\ pc = "pause"
    /\ now' = now + PauseMs
    /\ pc' = "loop"
    /\ UNCHANGED <<conn, loaded, testcases, i, totalCost, totalTokens, doc,
                   store, hist, startLog, embedLog, insertLog, average,
                   outerErr, pending, mainResult, lastReq, unpaced>>

\* lines 149-152: the loop is over, the summary is printed
Summary ==
    /\ pc = "loop"
    /\ ~HasNext(i, testcases)
    /\ average' = Divide(totalCost, Len(testcases))
    /\ pc' = "finally"
    /\ UNCHANGED <<conn, loaded, testcases, i, totalCost, totalTokens, doc,
                   store, hist, startLog, embedLog, insertLog, outerErr,
                   pending, mainResult, now, lastReq, unpaced>>

\* variant of OuterCatch: close() sits at the end of the try block, not in
\* a finally, so a caught error ends main() with the client still open
OuterCatch_NoFinally ==
    /\ pc = "catch"
    /\ pending' = "none"
    /\ mainResult' = "resolved"
    /\ pc' = "done"
    /\ UNCHANGED <<conn, loaded, testcases, i, totalCost, totalTokens, doc,
                   store, hist, startLog, embedLog, insertLog, average,
                   outerErr, now, lastReq, unpaced>>

\* lines 154-159: the outer catch logs what it caught
OuterCatch ==
    /\ pc = "catch"
    /\ pending' = AfterOuterCatch(outerErr)
    /\ pc' = "finally"
    /\ UNCHANGED <<conn, loaded, testcases, i, totalCost, totalTokens, doc,
                   store, hist, startLog, embedLog, insertLog, average,
                   outerErr, mainResult, now, lastReq, unpaced>>

\* lines 160-163: client.close() is called and main() settles; a rejected
\* close() replaces whatever was propagating
Finally ==
    /\ pc = "finally"
    /\ conn' = "closed"
    /\ \E closeOk \in BOOLEAN :
         mainResult' = IF ~closeOk THEN "rejected_close"
                       ELSE IF pending # "none" THEN "rejected"
                       ELSE "resolved"
    /\ pc' = "done"
    /\ UNCHANGED <<loaded, testcases, i, totalCost, totalTokens, doc, store,
                   hist, startLog, embedLog, insertLog, average, outerErr,
                   pending, now, lastReq, unpaced>>

Next ==
    \/ ConnectOk
    \/ ConnectFail
    \/ LoadOk
    \/ LoadFail
    \/ BeginRecord
    \/ EmbedReturn
    \/ InsertOk
    \/ InsertFail
    \/ Pause
    \/ Summary
    \/ OuterCatch
    \/ Finally

Spec == Init /\ [][Next]_vars

\* ------------------------------------------------- vocabulary of the claims
Ended == pc = "done"

N == Len(testcases)

Count(seq, x) == Cardinality({k \in DOMAIN seq : seq[k] = x})

DocsOf(id) == Cardinality({k \in DOMAIN store : store[k].tc = id})

\* the embedding call of record k was made and has settled
EmbeddingSettled(k) == hist[k].resp.kind # "none"

\* the embedding call of record k returned a usable embedding
EmbeddingSucceeded(k) ==
    /\ hist[k].resp.kind = "response"
    /\ hist[k].resp.bodyStatus = StatusOK
    /\ hist[k].resp.hasData

EmbeddingFailed(k) == EmbeddingSettled(k) /\ ~EmbeddingSucceeded(k)

\* record k got a 2xx reply whose body status is not 200
EmbeddingRejected(k) ==
    /\ hist[k].resp.kind = "response"
    /\ hist[k].resp.bodyStatus # StatusOK

Succeeded == {k \in 1..N : EmbeddingSucceeded(k)}
Written == {k \in 1..N : hist[k].write = "ok"}

RECURSIVE SumCost(_)
SumCost(S) ==
    IF S = {} THEN 0
    ELSE LET k == CHOOSE x \in S : TRUE
         IN OrZero(hist[k].resp.cost) + SumCost(S \ {k})

RECURSIVE SumTokens(_)
SumTokens(S) ==
    IF S = {} THEN 0
    ELSE LET k == CHOOSE x \in S : TRUE
         IN OrZero(hist[k].resp.tokens) + SumTokens(S \ {k})

\* every record of the batch carries its description field
WellFormedBatch == \A k \in 1..N : testcases[k].description # "undefined"

\* ----------------------------------------------------------------- claims

\* C1 (as stated): when the run has ended, the totals equal the sums of
\* cost and tokens over exactly the records whose store write succeeded.
C1_TotalsOnlyWrittenRecords ==
    (Ended /\ loaded) =>
        /\ totalCost = SumCost(Written)
        /\ totalTokens = SumTokens(Written)

\* C1 (amended): the totals equal the sums of cost and tokens over exactly
\* the records whose embedding was accepted, whatever became of the write.
C1_TotalsCountAcceptedEmbeddings ==
    loaded =>
        /\ totalCost = SumCost(Succeeded)
        /\ totalTokens = SumTokens(Succeeded)

C1_Witness ==
    /\ Ended
    /\ \E k \in 1..N :
         /\ EmbeddingSucceeded(k)
         /\ hist[k].write = "fail"
         /\ OrZero(hist[k].resp.cost) > 0
    /\ \E k \in 1..N : hist[k].write = "ok" /\ OrZero(hist[k].resp.cost) > 0
    /\ totalCost > SumCost(Written)

\* C2: when the run has ended after a successful load, every one of the N
\* records was begun exactly once and the final summary was reached.
C2_EveryRecordOnceThenSummary ==
    (Ended /\ loaded) =>
        /\ \A k \in 1..N : Count(startLog, k) = 1
        /\ average # Unset

\* C3: after a run over an empty batch the totals are 0 and the average
\* is the number 0, never NaN.
C3_EmptyBatchAverageZero ==
    (Ended /\ loaded /\ N = 0) =>
        /\ totalCost = 0
        /\ totalTokens = 0
        /\ average.kind = "number"
        /\ average.num = 0

\* C4 (as stated): a failed load sends no request, inserts nothing, and
\* main() ends in failure.
C4_LoadFailurePropagates ==
    (Ended /\ outerErr = "load") =>
        /\ embedLog = <<>>
        /\ insertLog = <<>>
        /\ store = <<>>
        /\ mainResult # "resolved"

\* C4 (amended): a failed load sends no request and inserts nothing; the
\* failure is caught and logged inside main(), the connection is closed,
\* and the failure does not propagate: main() fails only if close() fails.
C4_LoadFailureAbortsAndIsSwallowed ==
    (outerErr = "load") =>
        /\ startLog = <<>>
        /\ embedLog = <<>>
        /\ insertLog = <<>>
        /\ store = <<>>
        /\ pending = "none"
        /\ mainResult # "rejected"
        /\ Ended => (conn = "closed" /\ mainResult \in {"resolved", "rejected_close"})

C4_Witness ==
    /\ Ended
    /\ outerErr = "load"
    /\ mainResult = "resolved"
    /\ conn = "closed"

\* C5: in every state each record has at most one document in the store
\* and at most one insertOne call, made only after its embedding
\* succeeded; a record whose embedding or write failed has no document.
C5_AtMostOneDocumentPerRecord ==
    loaded =>
        \A k \in 1..N :
            /\ DocsOf(k) <= 1
            /\ Count(insertLog, k) <= 1
            /\ Count(insertLog, k) = 1 => EmbeddingSucceeded(k)
            /\ (EmbeddingFailed(k) \/ hist[k].write = "fail") => DocsOf(k) = 0

C5_Witness ==
    /\ Ended
    /\ \E k \in 1..N : DocsOf(k) = 1
    /\ \E k \in 1..N : EmbeddingFailed(k) /\ DocsOf(k) = 0
    /\ \E k \in 1..N : hist[k].write = "fail" /\ DocsOf(k) = 0

\* C6: for a batch of well-formed records in which no attempted write
\* fails, when the run has ended the number of stored documents equals
\* the number of successful embedding calls, and the loop ran to the
\* summary with nothing raised past the per-record catch.
C6_StoredEqualsSuccessfulEmbeddings ==
    (Ended /\ loaded /\ WellFormedBatch
        /\ \A k \in 1..N : hist[k].write # "fail") =>
        /\ Len(store) = Cardinality(Succeeded)
        /\ outerErr = "none"
        /\ average # Unset
        /\ \A k \in 1..N : EmbeddingSettled(k)

C6_Witness ==
    /\ Ended
    /\ WellFormedBatch
    /\ \A k \in 1..N : hist[k].write # "fail"
    /\ \E k \in 1..N : EmbeddingFailed(k) /\ \E m \in (k+1)..N : EmbeddingSucceeded(m)
    /\ Len(store) = Cardinality(Succeeded)
    /\ Len(store) > 0

\* C7: when a run over N > 0 records in which every embedding and every
\* write succeeded has ended, the store holds exactly N documents and the
\* denominator of the average is N.
C7_AllSucceedStoresN ==
    (Ended /\ loaded /\ N > 0 /\ WellFormedBatch
        /\ \A k \in 1..N : ~EmbeddingFailed(k) /\ hist[k].write # "fail") =>
        /\ Len(store) = N
        /\ \A k \in 1..N : DocsOf(k) = 1
        /\ average # Unset
        /\ average.den = N

C7_Witness ==
    /\ Ended
    /\ N >= 2
    /\ \A k \in 1..N : EmbeddingSucceeded(k) /\ hist[k].write = "ok"
    /\ Len(store) = N
    /\ average.den = N

\* C8: the connection is closed when the run has ended, on every path; it
\* is closed only then, so never while a record is being embedded or
\* written, and nothing is inserted once it is closed.
C8_ConnectionClosedAtEndOnly ==
    /\ [](Ended => conn = "closed")
    /\ [](conn = "closed" => Ended)
    /\ [](pc \in {"embed", "insert", "pause"} => conn = "open")
    /\ [][conn = "closed" => (store' = store /\ insertLog' = insertLog)]_vars

C8_Witness ==
    /\ Ended
    /\ conn = "closed"
    /\ outerErr = "loop"
    /\ Len(store) > 0

\* C9: a 2xx reply whose body status is not 200 makes the record a skipped
\* one: the step that receives it leaves the store and the totals alone,
\* calls no insertOne and returns to the loop head for the next record;
\* such a record never has a document.
C9_BodyStatusRejectionSkipsRecord ==
    /\ [](loaded => \A k \in 1..N :
            EmbeddingRejected(k) => (DocsOf(k) = 0 /\ Count(insertLog, k) = 0))
    /\ [][(pc = "embed" /\ EmbeddingRejected(i)')
            => /\ store' = store
               /\ totalCost' = totalCost
               /\ totalTokens' = totalTokens
               /\ insertLog' = insertLog
               /\ i' = i
               /\ pc' = "loop"]_vars

C9_Witness ==
    /\ Ended
    /\ \E k \in 1..N :
         /\ EmbeddingRejected(k)
         /\ hist[k].resp.hasData
         /\ k < N
         /\ DocsOf(k + 1) = 1
         /\ totalCost = OrZero(hist[k + 1].resp.cost)
         /\ totalCost > 0
    /\ N = 2

\* C10: every embedding request after the first is sent at least PauseMs
\* after the previous one.
C10_PauseBetweenConsecutiveRequests == unpaced = {}
====
